---- MODULE Spec2Model ----
(***************************************************************************)
(* Model of the framework memory manager, framework/src/fwk_mm.c: a        *)
(* single-region bump allocator.  The context structure fwk_mm_ctx is the  *)
(* state; every exported function is one action.  Addresses and sizes are  *)
(* unsigned machine words (uintptr_t, size_t, unsigned int) of AddrBits    *)
(* bits, the width of an ILP32-style target scaled down; all arithmetic on *)
(* them is taken modulo 2^AddrBits exactly where the C code wraps.         *)
(***************************************************************************)
EXTENDS Integers, Sequences, FiniteSets, TLC

\* ------------------------------------------------------------------ bounds
\* Width in bits of uintptr_t / size_t / unsigned int in the model.
AddrBits == 3
\* Number of calls made in one run.
MaxCalls == 3

RECURSIVE Pow2(_)
Pow2(n) == IF n = 0 THEN 1 ELSE 2 * Pow2(n - 1)

Modulus == Pow2(AddrBits)
MaxAddr == Modulus - 1
Word    == 0 .. MaxAddr

\* Unsigned wrap-around of a mathematical integer into a machine word.
Wrap(x) == x % Modulus

\* Bitwise AND of two machine words, bit by bit.
RECURSIVE BitAnd(_, _, _)
BitAnd(a, b, bits) ==
    IF bits = 0 THEN 0
    ELSE (IF a % 2 = 1 /\ b % 2 = 1 THEN 1 ELSE 0)
         + 2 * BitAnd(a \div 2, b \div 2, bits - 1)

\* Bitwise complement of a machine word.
BitNot(a) == MaxAddr - a

\* ------------------------------------------------------------- input sets
InitStarts  == {0, 1, 2, MaxAddr - 1}
InitSizes   == {0, 2, 3, MaxAddr - 2}
Nums        == {0, 1, 2, 3, 4, MaxAddr - 2, MaxAddr}
ElemSizes   == {0, 1, 2}
Alignments  == {0, 1, 2, 3, 4}
Increments  == {-1, 0, 1}

\* -------------------------------------------------------------- the state
VARIABLES
    initialized,    \* fwk_mm_ctx.initialized
    heap_free,      \* fwk_mm_ctx.heap_free
    heap_end,       \* fwk_mm_ctx.heap_end
    mem,            \* memory bytes: 0 = zero, 1 = anything else
    errno,          \* the C library's errno
    trapped,        \* fwk_trap() was invoked: execution has halted
    region_start,   \* history: start passed to the successful fwk_mm_init
    allocs,         \* history: <<address, byte count>> of each returned block
    last,           \* history: the last call, its arguments and its outcome
    calls           \* history: number of calls made so far

vars == <<initialized, heap_free, heap_end, mem, errno, trapped,
          region_start, allocs, last, calls>>

FWK_SUCCESS == "FWK_SUCCESS"
FWK_E_STATE == "FWK_E_STATE"
FWK_E_RANGE == "FWK_E_RANGE"

\* The record of one call: the arena as the call found it, the arguments,
\* and what came back.  Fields a call does not have are 0 or "".
Call(op, a, b, c, status, ret, err) ==
    [op |-> op, a |-> a, b |-> b, c |-> c,
     status |-> status, ret |-> ret, err |-> err,
     pre_initialized |-> initialized,
     pre_free |-> heap_free,
     pre_end |-> heap_end]

Init ==
    /\ initialized = FALSE
    /\ heap_free = 0
    /\ heap_end = 0
    /\ mem = [a \in Word |-> 1]
    /\ errno = "0"
    /\ trapped = FALSE
    /\ region_start = 0
    /\ allocs = <<>>
    /\ last = [op |-> "none", a |-> 0, b |-> 0, c |-> 0,
               status |-> "", ret |-> 0, err |-> "",
               pre_initialized |-> FALSE, pre_free |-> 0, pre_end |-> 0]
    /\ calls = 0

\* A call can be made while execution has not halted.
Running ==
    /\ ~trapped
    /\ calls < MaxCalls
    /\ calls' = calls + 1

\* ------------------------------------------------------------ fwk_mm_init
\* A variant that forgets the lifecycle gate of fwk_mm_init.
AlreadyInitialized_Never == FALSE

AlreadyInitialized == initialized

\* A variant that forgets to reject an empty region.
InvalidRegion_StartOnly(start, size) == (start = 0)

InvalidRegion(start, size) == (start = 0) \/ (size = 0)

InitStatus(start, size) ==
    IF AlreadyInitialized THEN FWK_E_STATE
    ELSE IF InvalidRegion(start, size) THEN FWK_E_RANGE
    ELSE FWK_SUCCESS

\* A variant that stores the region before it validates the call.
fwk_mm_init_StoreFirst(start, size) ==
    /\ Running
    /\ LET status == InitStatus(start, size) IN
       /\ heap_free' = start
       /\ heap_end' = Wrap(start + size)
       /\ initialized' = (initialized \/ status = FWK_SUCCESS)
       /\ region_start' = IF status = FWK_SUCCESS THEN start ELSE region_start
       /\ last' = Call("fwk_mm_init", start, size, 0, status, 0, "")
    /\ UNCHANGED <<mem, errno, trapped, allocs>>

\* A variant that sets the initialized flag before it validates the region.
fwk_mm_init_MarksEarly(start, size) ==
    /\ Running
    /\ LET status == InitStatus(start, size) IN
       /\ IF status = FWK_SUCCESS
          THEN /\ heap_free' = start
               /\ heap_end' = Wrap(start + size)
               /\ region_start' = start
          ELSE UNCHANGED <<heap_free, heap_end, region_start>>
       /\ initialized' = TRUE
       /\ last' = Call("fwk_mm_init", start, size, 0, status, 0, "")
    /\ UNCHANGED <<mem, errno, trapped, allocs>>

fwk_mm_init(start, size) ==
    /\ Running
    /\ LET status == InitStatus(start, size) IN
       /\ IF status = FWK_SUCCESS
          THEN /\ heap_free' = start
               /\ heap_end' = Wrap(start + size)
               /\ initialized' = TRUE
               /\ region_start' = start
          ELSE UNCHANGED <<heap_free, heap_end, initialized, region_start>>
       /\ last' = Call("fwk_mm_init", start, size, 0, status, 0, "")
    /\ UNCHANGED <<mem, errno, trapped, allocs>>

\* --------------------------------------------------- fwk_mm_alloc_aligned
\* if (!num || !size || !alignment || !fwk_mm_ctx.initialized) goto error;
ArgOrStateError(num, size, alignment) ==
    (num = 0) \/ (size = 0) \/ (alignment = 0) \/ ~initialized

\* A variant that forgets the power-of-two check.
NotPowerOfTwo_Never(alignment) == FALSE

\* A variant that tests alignment & (alignment + 1).
NotPowerOfTwo_PlusOne(alignment) ==
    BitAnd(alignment, Wrap(alignment + 1), AddrBits) # 0

\* if (alignment & (alignment - 1)) goto error;
NotPowerOfTwo(alignment) ==
    BitAnd(alignment, Wrap(alignment - 1), AddrBits) # 0

\* A variant that multiplies without the overflow check.
MulOverflow_Never(num, size) == FALSE

\* overflow = __builtin_mul_overflow(num, size, &total_size);
MulOverflow(num, size) == num * size > MaxAddr

TotalSize(num, size) == Wrap(num * size)

\* FWK_ALIGN_NEXT(VALUE, INTERVAL): VALUE rounded up to a multiple of INTERVAL,
\* (VALUE + INTERVAL - 1) & ~(INTERVAL - 1) in unsigned word arithmetic.
FWK_ALIGN_NEXT(value, interval) ==
    BitAnd(Wrap(value + interval - 1), BitNot(Wrap(interval - 1)), AddrBits)

\* A variant that forgets to test the rounding for wrap-around.
AlignOverflow_Never(start) == FALSE

\* if (start < fwk_mm_ctx.heap_free) goto error;
AlignOverflow(start) == start < heap_free

\* if (total_size > (fwk_mm_ctx.heap_end - start)) goto error;
CapacityExceeded(total_size, start) ==
    total_size > Wrap(heap_end - start)

\* The default alignment of fwk_mm_alloc and fwk_mm_calloc.
FWK_MM_DEFAULT_ALIGNMENT == 2

\* A variant that commits heap_free + total_size, forgetting the padding.
AllocOutcome_BumpFromCursor(num, size, alignment) ==
    LET total_size == TotalSize(num, size)
        start      == FWK_ALIGN_NEXT(heap_free, alignment)
        Fail(e)    == [ok |-> FALSE, start |-> 0, free |-> heap_free, err |-> e]
    IN  IF ArgOrStateError(num, size, alignment)
            THEN Fail("AllocationPreconditionViolated")
        ELSE IF NotPowerOfTwo(alignment)
            THEN Fail("AllocationPreconditionViolated")
        ELSE IF MulOverflow(num, size)
            THEN Fail("SizeOverflow")
        ELSE IF AlignOverflow(start)
            THEN Fail("AlignmentOverflow")
        ELSE IF CapacityExceeded(total_size, start)
            THEN Fail("CapacityExhausted")
        ELSE [ok |-> TRUE, start |-> start,
              free |-> Wrap(heap_free + total_size), err |-> ""]

\* The outcome of fwk_mm_alloc_aligned in the current state: either the
\* returned address and the new heap_free, or the check that sent it to
\* the error label.
AllocOutcome(num, size, alignment) ==
    LET total_size == TotalSize(num, size)
        start      == FWK_ALIGN_NEXT(heap_free, alignment)
        Fail(e)    == [ok |-> FALSE, start |-> 0, free |-> heap_free, err |-> e]
    IN  IF ArgOrStateError(num, size, alignment)
            THEN Fail("AllocationPreconditionViolated")
        ELSE IF NotPowerOfTwo(alignment)
            THEN Fail("AllocationPreconditionViolated")
        ELSE IF MulOverflow(num, size)
            THEN Fail("SizeOverflow")
        ELSE IF AlignOverflow(start)
            THEN Fail("AlignmentOverflow")
        ELSE IF CapacityExceeded(total_size, start)
            THEN Fail("CapacityExhausted")
        ELSE [ok |-> TRUE, start |-> start,
              free |-> Wrap(start + total_size), err |-> ""]

\* memset(start, 0, n).  A block that runs past the top of the address
\* space is written out of bounds: the out-of-range part either wraps to
\* the low addresses (wraps) or is not written at all.
Memset(m, start, n, wraps) ==
    [a \in Word |->
        IF \/ (start <= a /\ a < start + n)
           \/ (wraps /\ a + Modulus < start + n)
        THEN 0 ELSE m[a]]

\* A variant whose error label returns NULL to the caller instead of
\* halting in fwk_trap().
Allocate_ErrorReturns(op, num, size, alignment, zero) ==
    /\ Running
    /\ LET r == AllocOutcome(num, size, alignment) IN
       IF r.ok
       THEN /\ heap_free' = r.free
            /\ allocs' = Append(allocs, <<r.start, TotalSize(num, size)>>)
            /\ last' = Call(op, num, size, alignment, "returned", r.start, "")
            /\ mem' = IF zero /\ r.start # 0
                      THEN Memset(mem, r.start, TotalSize(num, size), FALSE)
                      ELSE mem
       ELSE /\ last' = Call(op, num, size, alignment, "returned", 0, r.err)
            /\ UNCHANGED <<heap_free, allocs, mem>>
    /\ UNCHANGED <<initialized, heap_end, errno, region_start, trapped>>

\* A variant that commits the aligned cursor before the checks that can
\* still send the call to the error label.
Allocate_FailureMovesCursor(op, num, size, alignment, zero) ==
    /\ Running
    /\ LET r == AllocOutcome(num, size, alignment) IN
       IF r.ok
       THEN /\ heap_free' = r.free
            /\ allocs' = Append(allocs, <<r.start, TotalSize(num, size)>>)
            /\ last' = Call(op, num, size, alignment, "returned", r.start, "")
            /\ mem' = IF zero /\ r.start # 0
                      THEN Memset(mem, r.start, TotalSize(num, size), FALSE)
                      ELSE mem
            /\ UNCHANGED trapped
       ELSE /\ trapped' = TRUE
            /\ heap_free' = FWK_ALIGN_NEXT(heap_free, alignment)
            /\ last' = Call(op, num, size, alignment, "trap", 0, r.err)
            /\ UNCHANGED <<allocs, mem>>
    /\ UNCHANGED <<initialized, heap_end, errno, region_start>>

\* One allocation call: op is the entry point, zero tells whether it is a
\* zero-initializing one.  The error label is fwk_trap(), which does not
\* return.
Allocate(op, num, size, alignment, zero) ==
    /\ Running
    /\ LET r == AllocOutcome(num, size, alignment) IN
       IF r.ok
       THEN /\ heap_free' = r.free
            /\ allocs' = Append(allocs, <<r.start, TotalSize(num, size)>>)
            /\ last' = Call(op, num, size, alignment, "returned", r.start, "")
            /\ IF zero /\ r.start # 0
               THEN \E wraps \in BOOLEAN :
                       /\ (wraps => r.start + TotalSize(num, size) > Modulus)
                       /\ mem' = Memset(mem, r.start, TotalSize(num, size), wraps)
               ELSE mem' = mem
            /\ UNCHANGED trapped
       ELSE /\ trapped' = TRUE
            /\ last' = Call(op, num, size, alignment, "trap", 0, r.err)
            /\ UNCHANGED <<heap_free, allocs, mem>>
    /\ UNCHANGED <<initialized, heap_end, errno, region_start>>

fwk_mm_alloc_aligned(num, size, alignment) ==
    Allocate("fwk_mm_alloc_aligned", num, size, alignment, FALSE)

\* A variant that passes alignment 1 instead of the default alignment.
fwk_mm_alloc_Unaligned(num, size) ==
    Allocate("fwk_mm_alloc", num, size, 1, FALSE)

fwk_mm_alloc(num, size) ==
    Allocate("fwk_mm_alloc", num, size, FWK_MM_DEFAULT_ALIGNMENT, FALSE)

fwk_mm_calloc_aligned(num, size, alignment) ==
    Allocate("fwk_mm_calloc_aligned", num, size, alignment, TRUE)

fwk_mm_calloc(num, size) ==
    Allocate("fwk_mm_calloc", num, size, FWK_MM_DEFAULT_ALIGNMENT, TRUE)

\* ------------------------------------------------------------------ _sbrk
\* A variant that behaves like a classic program break: it moves heap_end
\* by the increment and returns the old end.
sbrk_Grows(increment) ==
    /\ Running
    /\ heap_end' = Wrap(heap_end + increment)
    /\ last' = Call("_sbrk", increment, 0, 0, "returned", heap_end, "")
    /\ UNCHANGED <<initialized, heap_free, mem, errno, trapped,
                   region_start, allocs>>

sbrk(increment) ==
    /\ Running
    /\ IF increment = 0
       THEN /\ last' = Call("_sbrk", increment, 0, 0, "returned", heap_end, "")
            /\ UNCHANGED errno
       ELSE /\ errno' = "ENOMEM"
            /\ last' = Call("_sbrk", increment, 0, 0, "failed", MaxAddr, "")
    /\ UNCHANGED <<initialized, heap_free, heap_end, mem, trapped,
                   region_start, allocs>>

\* ------------------------------------------------------------------- next
DoInit == \E start \in InitStarts, size \in InitSizes : fwk_mm_init(start, size)

DoAllocAligned ==
    \E num \in Nums, size \in ElemSizes, alignment \in Alignments :
        fwk_mm_alloc_aligned(num, size, alignment)

DoAlloc == \E num \in Nums, size \in ElemSizes : fwk_mm_alloc(num, size)

DoCallocAligned ==
    \E num \in Nums, size \in ElemSizes, alignment \in Alignments :
        fwk_mm_calloc_aligned(num, size, alignment)

DoCalloc == \E num \in Nums, size \in ElemSizes : fwk_mm_calloc(num, size)

DoSbrk == \E increment \in Increments : sbrk(increment)

Next ==
    \/ DoInit
    \/ DoAllocAligned
    \/ DoAlloc
    \/ DoCallocAligned
    \/ DoCalloc
    \/ DoSbrk

Spec == Init /\ [][Next]_vars

\* ------------------------------------------------------------- properties
AllocOps == {"fwk_mm_alloc_aligned", "fwk_mm_alloc",
             "fwk_mm_calloc_aligned", "fwk_mm_calloc"}

\* The last call was an allocation call / one that returned an address.
IsAlloc  == last.op \in AllocOps
Returned == IsAlloc /\ last.status = "returned"
Trapped  == IsAlloc /\ last.status = "trap"
IsSetup  == last.op = "fwk_mm_init"

\* count * element_size of the last allocation call, as a mathematical integer.
Product == last.a * last.b

\* The last call left the arena as it found it.
ArenaUntouched ==
    /\ initialized = last.pre_initialized
    /\ heap_free = last.pre_free
    /\ heap_end = last.pre_end

IsPowerOfTwo(n) == \E k \in 0 .. AddrBits - 1 : n = Pow2(k)

\* C1: once the arena is initialized the cursor stays inside the region,
\* region_start <= heap_free <= heap_end.
C1_CursorInsideRegion ==
    initialized => (region_start <= heap_free /\ heap_free <= heap_end)

\* C2: every returned address a satisfies region_start <= a < heap_end and
\* the whole block [a, a + count*element_size) lies inside the region.
C2_BlockInsideRegion ==
    Returned =>
        /\ region_start <= last.ret
        /\ last.ret < heap_end
        /\ last.ret + Product <= heap_end

\* C3: the returned addresses are non-decreasing in call order and the
\* byte ranges of any two distinct allocations are disjoint.
C3_MonotonicDisjoint ==
    \A i, j \in 1 .. Len(allocs) :
        i < j =>
            /\ allocs[i][1] <= allocs[j][1]
            /\ \/ allocs[i][1] + allocs[i][2] <= allocs[j][1]
               \/ allocs[j][1] + allocs[j][2] <= allocs[i][1]

\* C4: after setup heap_free never moves backward in any step.
C4_CursorNeverDecreases ==
    [][initialized => heap_free' >= heap_free]_vars

\* C5: the address returned by a successful allocation is a multiple of the
\* requested alignment.
C5_ReturnedAddressAligned ==
    Returned => last.ret % last.c = 0

\* C5 witness: a successful allocation with alignment 4 from a cursor that
\* was not 4-aligned.
C5_Witness ==
    Returned /\ last.c = 4 /\ last.pre_free % 4 # 0

\* C6: while initialized is false every allocation call halts in the trap,
\* hands out no address and leaves the arena untouched.
C6_NoAllocationBeforeSetup ==
    (IsAlloc /\ ~last.pre_initialized) =>
        /\ last.status = "trap"
        /\ trapped
        /\ allocs = <<>>
        /\ ArenaUntouched

\* C6 witness: a zero-initializing allocation with valid arguments, made
\* after a failed setup on a still uninitialized arena.
C6_Witness ==
    /\ last.op = "fwk_mm_calloc_aligned"
    /\ ~last.pre_initialized
    /\ last.a > 0 /\ last.b > 0 /\ last.c = 1
    /\ calls = 2
    /\ trapped

\* C7: a setup call on an initialized arena returns FWK_E_STATE whatever its
\* arguments and leaves initialized, heap_free and heap_end unchanged.
C7_SecondSetupRefused ==
    (IsSetup /\ last.pre_initialized) =>
        /\ last.status = FWK_E_STATE
        /\ initialized
        /\ ArenaUntouched

\* C7 witness: a setup call with a valid region, made after an allocation
\* has been handed out.
C7_Witness ==
    /\ IsSetup /\ last.pre_initialized
    /\ last.a # 0 /\ last.b # 0
    /\ Len(allocs) > 0
    /\ last.status = FWK_E_STATE

\* C8 as stated: a setup call with start = 0 or size = 0 returns FWK_E_RANGE
\* in whatever state the arena is.
C8_Original ==
    (IsSetup /\ (last.a = 0 \/ last.b = 0)) => last.status = FWK_E_RANGE

\* C8 amended: a setup call with start = 0 or size = 0 returns FWK_E_RANGE on
\* an uninitialized arena, and FWK_E_STATE on an initialized one.
C8_InvalidRegionWhenUninitialized ==
    (IsSetup /\ (last.a = 0 \/ last.b = 0)) =>
        last.status = (IF last.pre_initialized THEN FWK_E_STATE
                                               ELSE FWK_E_RANGE)

\* C8 witness: setup with a non-zero start and size 0 on an uninitialized
\* arena.
C8_Witness ==
    /\ IsSetup /\ ~last.pre_initialized
    /\ last.a # 0 /\ last.b = 0
    /\ last.status = FWK_E_RANGE

\* C9: with r = heap_end - heap_free bytes remaining, an alignment-1
\* allocation of r bytes (r > 0) succeeds and leaves heap_free = heap_end, one
\* of r + 1 bytes fails with CapacityExhausted, and once heap_free = heap_end
\* every allocation fails.
C9_CapacityBoundary ==
    LET r == last.pre_end - last.pre_free IN
    (IsAlloc /\ last.pre_initialized) =>
        /\ (last.c = 1 /\ r > 0 /\ Product = r) =>
               (Returned /\ heap_free = heap_end)
        /\ (last.c = 1 /\ r >= 0 /\ Product = r + 1) =>
               (Trapped /\ last.err = "CapacityExhausted")
        /\ (r = 0) => Trapped

\* C10 as stated: an allocation with non-zero arguments whose product
\* exceeds the largest size fails with SizeOverflow and changes no state.
C10_Original ==
    (IsAlloc /\ last.a # 0 /\ last.b # 0 /\ last.c # 0 /\ Product > MaxAddr) =>
        /\ Trapped
        /\ last.err = "SizeOverflow"
        /\ ArenaUntouched

\* C10 amended: such an allocation always fails and changes no state; the
\* failure is SizeOverflow when the arena is initialized and the alignment a
\* power of two, and AllocationPreconditionViolated otherwise.
C10_OverflowingProductFails ==
    (IsAlloc /\ last.a # 0 /\ last.b # 0 /\ last.c # 0 /\ Product > MaxAddr) =>
        /\ Trapped
        /\ trapped
        /\ ArenaUntouched
        /\ last.err = (IF last.pre_initialized /\ IsPowerOfTwo(last.c)
                       THEN "SizeOverflow"
                       ELSE "AllocationPreconditionViolated")

\* C10 witness: on an initialized arena, a product that overflows and whose
\* wrapped value is a non-zero size the free space could have held.
C10_Witness ==
    /\ Trapped /\ last.pre_initialized /\ last.c = 2
    /\ Product > MaxAddr
    /\ Wrap(Product) # 0
    /\ last.pre_free <= last.pre_end
    /\ FWK_ALIGN_NEXT(last.pre_free, 2) + Wrap(Product) <= last.pre_end
    /\ last.err = "SizeOverflow"

\* The last call was an allocation call that one of the checks rejected.
FailedAlloc == IsAlloc /\ last.err # ""

\* C11: every failed allocation call invokes the trap and leaves initialized,
\* heap_free and heap_end as they were, and once the trap has been invoked
\* no further call is executed.
C11_FailureIsFatalAndClean ==
    /\ [](FailedAlloc => (last.status = "trap" /\ trapped /\ ArenaUntouched))
    /\ [][~trapped]_vars

\* C11 witness: an allocation that fails for lack of room after an earlier
\* allocation succeeded from an unaligned cursor.
C11_Witness ==
    /\ FailedAlloc /\ trapped
    /\ last.err = "CapacityExhausted"
    /\ Len(allocs) > 0
    /\ last.pre_free % 2 = 1 /\ last.c = 2

CallocOps == {"fwk_mm_calloc_aligned", "fwk_mm_calloc"}

\* C12: a successful zero-initializing allocation returning a leaves every
\* byte of [a, a + count*element_size) zero and every other byte as it was,
\* and leaves the arena as the plain allocation would; a failed one writes
\* no byte.
C12_ZeroedBlock ==
    [][(last'.op \in CallocOps) =>
        IF last'.status = "returned"
        THEN /\ \A x \in Word :
                    IF last'.ret <= x /\ x < last'.ret + last'.a * last'.b
                    THEN mem'[x] = 0
                    ELSE mem'[x] = mem[x]
             /\ last'.ret = AllocOutcome(last'.a, last'.b, last'.c).start
             /\ heap_free' = AllocOutcome(last'.a, last'.b, last'.c).free
             /\ heap_end' = heap_end
             /\ initialized' = initialized
        ELSE mem' = mem /\ AllocOutcome(last'.a, last'.b, last'.c).ok = FALSE
    ]_vars

\* The smallest multiple of interval that is >= value, as a mathematical
\* integer.
RoundUp(value, interval) == ((value + interval - 1) \div interval) * interval

\* C13: an allocation whose alignment is not a power of two fails in any
\* state; one with non-zero count and element_size, a power-of-two alignment
\* and room for the block after the alignment padding succeeds on an
\* initialized arena.
C13_PowerOfTwoGate ==
    IsAlloc =>
        /\ ~IsPowerOfTwo(last.c) => (Trapped /\ ArenaUntouched)
        /\ ( /\ last.pre_initialized
             /\ last.a # 0 /\ last.b # 0
             /\ IsPowerOfTwo(last.c)
             /\ RoundUp(last.pre_free, last.c) + Product <= last.pre_end )
           => Returned

\* C13 witness: allocate(1, 1, 3) rejected on an initialized arena that has
\* room for the byte.
C13_Witness ==
    /\ Trapped /\ last.pre_initialized
    /\ last.a = 1 /\ last.b = 1 /\ last.c = 3
    /\ last.pre_free < last.pre_end

\* C14: once initialized is true it stays true, heap_end and the region
\* start never change, and heap_free changes only in a step that is a
\* successful allocation.
C14_RegionFrozenAfterSetup ==
    [][initialized =>
        /\ initialized'
        /\ heap_end' = heap_end
        /\ region_start' = region_start
        /\ (heap_free' # heap_free =>
                (last'.op \in AllocOps /\ last'.status = "returned"))
    ]_vars

\* C14 witness: an initialized arena after an allocation and a growth
\* request to the heap-extension shim.
C14_Witness ==
    /\ initialized
    /\ Len(allocs) > 0
    /\ last.op = "_sbrk" /\ last.a # 0
    /\ heap_end = last.pre_end

IsSbrk == last.op = "_sbrk"

\* C15: _sbrk(0) returns heap_end; _sbrk with any other increment returns
\* (void *)-1 with errno set to ENOMEM; no call of _sbrk changes
\* initialized, heap_free or heap_end.
C15_SbrkNeverGrows ==
    IsSbrk =>
        /\ ArenaUntouched
        /\ (last.a = 0) => (last.status = "returned" /\ last.ret = heap_end)
        /\ (last.a # 0) =>
               (last.status = "failed" /\ last.ret = MaxAddr
                /\ errno = "ENOMEM")

\* C15 witness: a negative increment refused on an initialized arena.
C15_Witness ==
    /\ IsSbrk /\ initialized
    /\ last.a < 0
    /\ last.status = "failed" /\ errno = "ENOMEM"

\* C16: a step of fwk_mm_alloc(num, size) has the outcome and leaves the
\* arena that fwk_mm_alloc_aligned(num, size, FWK_MM_DEFAULT_ALIGNMENT) has
\* and leaves from the same state, and a step of fwk_mm_calloc(num, size)
\* those of fwk_mm_calloc_aligned(num, size, FWK_MM_DEFAULT_ALIGNMENT),
\* zeroed bytes included.
C16_DefaultWrappers ==
    [][(last'.op \in {"fwk_mm_alloc", "fwk_mm_calloc"}) =>
        LET r == AllocOutcome(last'.a, last'.b, FWK_MM_DEFAULT_ALIGNMENT)
            n == TotalSize(last'.a, last'.b)
        IN  /\ initialized' = initialized
            /\ heap_end' = heap_end
            /\ heap_free' = r.free
            /\ IF r.ok
               THEN /\ last'.status = "returned"
                    /\ last'.ret = r.start
                    /\ ~trapped'
                    /\ IF last'.op = "fwk_mm_calloc" /\ r.start # 0
                       THEN \E wraps \in BOOLEAN :
                               /\ (wraps => r.start + n > Modulus)
                               /\ mem' = Memset(mem, r.start, n, wraps)
                       ELSE mem' = mem
               ELSE /\ last'.status = "trap"
                    /\ last'.err = r.err
                    /\ trapped'
                    /\ mem' = mem
    ]_vars

\* C16 witness: fwk_mm_calloc returned a block after skipping padding to
\* reach the default alignment.
C16_Witness ==
    /\ last.op = "fwk_mm_calloc" /\ last.status = "returned"
    /\ last.pre_free % FWK_MM_DEFAULT_ALIGNMENT # 0
    /\ last.ret > last.pre_free
    /\ mem[last.ret] = 0

RoundingOverflows ==
    IsAlloc /\ last.c >= 1 /\ RoundUp(last.pre_free, last.c) > MaxAddr

\* C18 as stated: whenever rounding heap_free up to the alignment passes the
\* largest address the allocation fails with AlignmentOverflow and the cursor
\* is unchanged, and no allocation returns an address below the cursor.
C18_Original ==
    /\ RoundingOverflows =>
           (Trapped /\ last.err = "AlignmentOverflow"
            /\ heap_free = last.pre_free)
    /\ Returned => last.ret >= last.pre_free

\* C18 amended: such an allocation always fails and leaves the cursor
\* unchanged, and no allocation returns an address below the cursor; the
\* failure is AlignmentOverflow when count and element_size are non-zero,
\* the alignment is a power of two and count*element_size does not overflow,
\* and the failure of the earlier check otherwise.
C18_WrappedRoundingFails ==
    /\ RoundingOverflows =>
           /\ Trapped /\ trapped
           /\ ArenaUntouched
           /\ last.err =
                (IF \/ last.a = 0 \/ last.b = 0
                    \/ ~last.pre_initialized
                    \/ ~IsPowerOfTwo(last.c)
                 THEN "AllocationPreconditionViolated"
                 ELSE IF Product > MaxAddr THEN "SizeOverflow"
                 ELSE "AlignmentOverflow")
    /\ Returned => last.ret >= last.pre_free

\* C18 witness: the rounding wraps to an address from which the block would
\* have fitted below heap_end, and the call fails with AlignmentOverflow.
C18_Witness ==
    /\ RoundingOverflows /\ Trapped
    /\ last.err = "AlignmentOverflow"
    /\ FWK_ALIGN_NEXT(last.pre_free, last.c) < last.pre_free
    /\ FWK_ALIGN_NEXT(last.pre_free, last.c) + Product <= last.pre_end

\* C19: a setup call that returns FWK_E_RANGE or FWK_E_STATE changes none of
\* initialized, heap_free and heap_end, and a setup call with non-zero start
\* and size on an arena that is still uninitialized, whatever failed before,
\* succeeds and sets heap_free = start and initialized = TRUE.
C19_FailedSetupLeavesNoTrace ==
    IsSetup =>
        /\ last.status \in {FWK_SUCCESS, FWK_E_RANGE, FWK_E_STATE}
        /\ (last.status # FWK_SUCCESS) => ArenaUntouched
        /\ (~last.pre_initialized /\ last.a # 0 /\ last.b # 0) =>
               /\ last.status = FWK_SUCCESS
               /\ heap_free = last.a
               /\ initialized

\* C19 witness: the third call of a run is a setup that succeeds, the two
\* calls before it having left the arena uninitialized.
C19_Witness ==
    /\ IsSetup /\ calls = 3
    /\ ~last.pre_initialized
    /\ last.status = FWK_SUCCESS
    /\ initialized /\ heap_free = last.a
    /\ errno = "0"

\* C20: after every successful setup(start, size), heap_end - heap_free
\* equals size in unsigned word arithmetic and heap_end > start: setup never
\* succeeds with a start + size that wraps past the top of the address space.
C20_SetupRegionWellFormed ==
    (IsSetup /\ last.status = FWK_SUCCESS) =>
        /\ Wrap(heap_end - heap_free) = last.b
        /\ heap_end > last.a
        /\ last.a + last.b <= MaxAddr

====
